---------------------------- MODULE Spec2Model ----------------------------
(***************************************************************************)
(* Model of sslyze's certificate-information console renderer              *)
(* (_CertificateInfoCliConnector.result_to_console_output) and of the      *)
(* picklable Certificate record (plugins/utils/certificate.py).            *)
(*                                                                         *)
(* Python values are encoded as follows:                                   *)
(*   - an Optional[bool] / Optional[int] field is a record [t, v] with     *)
(*     t \in {"None", "bool", "int"} and v an integer (True = 1);          *)
(*   - a str is a TLA+ string, except where the code looks inside the      *)
(*     string (a substring test), where it is a sequence of characters;    *)
(*   - a list is a sequence, a dict a function from its keys;              *)
(*   - a list-or-None field that the code only tests for truthiness is a   *)
(*     sequence, <<>> standing for both None and [].                       *)
(***************************************************************************)
EXTENDS Integers, Sequences, FiniteSets, TLC

VARIABLES
    result,     \* the CertificateInfoScanResult handed to the renderer
    pc,         \* "start" | "done" | "raised"
    output,     \* result_as_txt as returned (<<>> when nothing was returned)
    error,      \* "none" or the name of the exception that escaped
    self,       \* a Certificate record (receiver of __eq__/__ne__/__hash__)
    other,      \* the object it is compared with
    cpc,        \* "start" | "compared" | "printed"
    ret         \* values returned by the Certificate methods

vars == <<result, pc, output, error, self, other, cpc, ret>>
connVars == <<result, pc, output, error>>
certVars == <<self, other, cpc, ret>>

---------------------------------------------------------------------------
(* Bounds of the model *)

MaxStores == 2
MaxScts == 4

---------------------------------------------------------------------------
(* Python values *)

PyNone == [t |-> "None", v |-> 0]
PyTrue == [t |-> "bool", v |-> 1]
PyFalse == [t |-> "bool", v |-> 0]
PyBool(b) == IF b THEN PyTrue ELSE PyFalse
PyInt(n) == [t |-> "int", v |-> n]

\* `x is None`, `x is True`, `x is False`: identity with the singletons
IsNone(x) == x.t = "None"
IsTrue(x) == x.t = "bool" /\ x.v = 1
IsFalse(x) == x.t = "bool" /\ x.v = 0

\* truth value of an object in a condition: None, False and 0 are false
Truthy(x) == x.t # "None" /\ x.v # 0

Digit(d) == CASE d = 0 -> "0" [] d = 1 -> "1" [] d = 2 -> "2" [] d = 3 -> "3"
              [] d = 4 -> "4" [] d = 5 -> "5" [] d = 6 -> "6" [] d = 7 -> "7"
              [] d = 8 -> "8" [] d = 9 -> "9"

\* str(n) for an int n >= 0: its decimal digits
RECURSIVE PyStr(_)
PyStr(n) == IF n < 10 THEN Digit(n) ELSE PyStr(n \div 10) \o Digit(n % 10)

\* sep.join(parts)
RECURSIVE Join(_, _)
Join(sep, parts) ==
    IF parts = <<>> THEN ""
    ELSE IF Len(parts) = 1 THEN parts[1]
    ELSE parts[1] \o sep \o Join(sep, Tail(parts))

\* a str held as a sequence of characters, as one str
Chars(s) == Join("", s)

\* `needle in hay` for two strs held as sequences of characters
Contains(needle, hay) ==
    \E i \in 0..(Len(hay) - Len(needle)) :
        \A k \in 1..Len(needle) : hay[i + k] = needle[k]

SUCCESSFUL_TXT == <<"s", "u", "c", "c", "e", "s", "s", "f", "u", "l">>


---------------------------------------------------------------------------
(* Formatting helpers of the connector's base class and of the libraries   *)

\* one entry of result_as_txt
_format_title(title) == [kind |-> "title", title |-> title, value |-> ""]
_format_subtitle(title) == [kind |-> "subtitle", title |-> title, value |-> ""]
_format_field(title, value) == [kind |-> "field", title |-> title, value |-> value]
BlankLine == [kind |-> "text", title |-> "", value |-> ""]

HexDigit(d) == IF d < 10 THEN Digit(d)
               ELSE CASE d = 10 -> "a" [] d = 11 -> "b" [] d = 12 -> "c"
                      [] d = 13 -> "d" [] d = 14 -> "e" [] d = 15 -> "f"

\* binascii.hexlify(bytes).decode("ascii")
RECURSIVE Hexlify(_)
Hexlify(bytes) ==
    IF bytes = <<>> THEN ""
    ELSE HexDigit(Head(bytes) \div 16) \o HexDigit(Head(bytes) % 16) \o Hexlify(Tail(bytes))

\* zero-padded decimal of width 2
Pad2(n) == IF n < 10 THEN "0" \o PyStr(n) ELSE PyStr(n)

\* datetime.date().isoformat(): the time of day is dropped
DateIsoformat(dt) == PyStr(dt.year) \o "-" \o Pad2(dt.month) \o "-" \o Pad2(dt.day)

\* str(list of str): Python's repr of the list
PyStrList(names) == "[" \o Join(", ", [i \in 1..Len(names) |-> "'" \o names[i] \o "'"]) \o "]"

Reverse(s) == [i \in 1..Len(s) |-> s[Len(s) + 1 - i]]

\* x509.Name.rfc4514_string(): the RDNs in reverse order, "KEY=value" joined by ","
rfc4514_string(name_field) ==
    Join(",", [i \in 1..Len(name_field) |->
                  Reverse(name_field)[i].oid \o "=" \o Reverse(name_field)[i].value])

\* get_common_names: the values of the Common Name attributes, in order
get_common_names(name_field) ==
    LET cns == SelectSeq(name_field, LAMBDA attr : attr.oid = "CN")
    IN [i \in 1..Len(cns) |-> cns[i].value]

_get_name_as_short_text(name_field) ==
    LET common_names == get_common_names(name_field)
    IN IF Len(common_names) > 0
       THEN common_names[1]
       ELSE rfc4514_string(name_field)

---------------------------------------------------------------------------
(* The inputs: certificates, trust stores, OCSP responses                  *)

Attr(oid, value) == [oid |-> oid, value |-> value]
Date(y, m, d, h) == [year |-> y, month |-> m, day |-> d, hour |-> h]

RsaKey == [kind |-> "RSA", cls |-> "_RSAPublicKey", key_size |-> 2048, e |-> 65537, curve |-> ""]
EcKey == [kind |-> "EC", cls |-> "_EllipticCurvePublicKey", key_size |-> 256, e |-> 0, curve |-> "secp256r1"]
DsaKey == [kind |-> "DSA", cls |-> "_DSAPublicKey", key_size |-> 1024, e |-> 0, curve |-> ""]

LeafRsa ==
    [sha1 |-> <<10, 255, 3>>,
     subject |-> <<Attr("O", "Example"), Attr("CN", "example.com"), Attr("CN", "www.example.com")>>,
     issuer |-> <<Attr("O", "Trust"), Attr("CN", "Trust CA")>>,
     serial_number |-> 4097,
     not_valid_before |-> Date(2020, 1, 5, 23), not_valid_after |-> Date(2021, 11, 30, 0),
     hash_name |-> "sha256", public_key |-> RsaKey, must_staple |-> TRUE,
     san |-> [present |-> TRUE, names |-> <<"example.com", "www.example.com">>]]

LeafEc ==
    [sha1 |-> <<0, 17, 171>>,
     subject |-> <<Attr("C", "US"), Attr("O", "Example")>>,
     issuer |-> <<Attr("O", "Trust"), Attr("CN", "Trust CA")>>,
     serial_number |-> 7,
     not_valid_before |-> Date(2019, 12, 31, 12), not_valid_after |-> Date(2020, 3, 1, 12),
     hash_name |-> "sha256", public_key |-> EcKey, must_staple |-> FALSE,
     san |-> [present |-> FALSE, names |-> <<>>]]

LeafDsa ==
    [sha1 |-> <<222, 173, 190>>,
     subject |-> <<Attr("CN", "legacy.example.com")>>,
     issuer |-> <<Attr("O", "Trust"), Attr("CN", "Trust CA")>>,
     serial_number |-> 10,
     not_valid_before |-> Date(2018, 6, 9, 0), not_valid_after |-> Date(2028, 6, 9, 0),
     hash_name |-> "sha256", public_key |-> DsaKey, must_staple |-> FALSE,
     san |-> [present |-> TRUE, names |-> <<>>]]

IntermediateCert ==
    [sha1 |-> <<1, 2, 3>>,
     subject |-> <<Attr("O", "Trust"), Attr("CN", "Trust CA")>>,
     issuer |-> <<Attr("O", "Trust"), Attr("OU", "Root")>>,
     serial_number |-> 2,
     not_valid_before |-> Date(2010, 1, 1, 0), not_valid_after |-> Date(2030, 1, 1, 0),
     hash_name |-> "sha256", public_key |-> RsaKey, must_staple |-> FALSE,
     san |-> [present |-> FALSE, names |-> <<>>]]

RootCert ==
    [sha1 |-> <<4, 5, 6>>,
     subject |-> <<Attr("O", "Trust"), Attr("OU", "Root")>>,
     issuer |-> <<Attr("O", "Trust"), Attr("OU", "Root")>>,
     serial_number |-> 1,
     not_valid_before |-> Date(2000, 1, 1, 0), not_valid_after |-> Date(2040, 1, 1, 0),
     hash_name |-> "sha256", public_key |-> RsaKey, must_staple |-> FALSE,
     san |-> [present |-> FALSE, names |-> <<>>]]

\* a root of the legacy CA that was distrusted in 2018, signed with SHA-1
LegacyRootCert ==
    [sha1 |-> <<7, 8, 9>>,
     subject |-> <<Attr("O", "Symantec"), Attr("CN", "Legacy Root")>>,
     issuer |-> <<Attr("O", "Symantec"), Attr("CN", "Legacy Root")>>,
     serial_number |-> 3,
     not_valid_before |-> Date(1999, 1, 1, 0), not_valid_after |-> Date(2036, 1, 1, 0),
     hash_name |-> "sha1", public_key |-> RsaKey, must_staple |-> FALSE,
     san |-> [present |-> FALSE, names |-> <<>>]]

\* the configured fingerprints of the distrusted legacy roots
LegacyRootFingerprints == {LegacyRootCert.sha1}

\* the chains a server may present, leaf first (the last one is out of order
\* and carries a root)
ReceivedChains ==
    {<<LeafRsa>>, <<LeafEc, IntermediateCert>>, <<LeafDsa, RootCert, IntermediateCert>>}

MozillaStore ==
    [name |-> "Mozilla", version |-> "2019-03-14", ev_oids |-> <<"2.23.140.1.1">>,
     root |-> RootCert]
AppleStore ==
    [name |-> "Apple", version |-> "iOS 12", ev_oids |-> <<>>, root |-> LegacyRootCert]
TrustStores == {MozillaStore, AppleStore}

VerifyStrings == {"self signed certificate", "certificate has expired"}

\* the textual responseStatus of a decoded response
StatusTexts == {SUCCESSFUL_TXT, <<"S", "u", "c", "c", "e", "s", "s", "f", "u", "l">>}
TRY_LATER_TXT == <<"t", "r", "y", "L", "a", "t", "e", "r">>
UNAUTHORIZED_TXT == <<"u", "n", "a", "u", "t", "h", "o", "r", "i", "z", "e", "d">>

GoodResponse ==
    [certStatus |-> "good", certID |-> [serialNumber |-> "0A"],
     thisUpdate |-> "Nov  1 2019", nextUpdate |-> "Nov  8 2019"]
RevokedResponse ==
    [certStatus |-> "revoked", certID |-> [serialNumber |-> "0B"],
     thisUpdate |-> "Oct  1 2019", nextUpdate |-> "Oct  8 2019"]

\* the per-certificate lists of a decoded response
ResponseLists == {<<>>, <<GoodResponse>>, <<RevokedResponse, GoodResponse>>}

SeqsUpTo(S, n) == UNION {[1..k -> S] : k \in 0..n}

\* (ocsp_response, ocsp_response_status, ocsp_response_is_trusted) of a scan
NoOcsp ==
    [ocsp_response |-> [present |-> FALSE, responseStatus |-> <<>>, responderID |-> "",
                        responses |-> <<>>],
     ocsp_response_status |-> "None",
     ocsp_response_is_trusted |-> PyNone]

OcspEvaluations ==
    {NoOcsp}
    \cup {[ocsp_response |-> [present |-> TRUE, responseStatus |-> st[2], responderID |-> "",
                              responses |-> <<>>],
           ocsp_response_status |-> st[1],
           ocsp_response_is_trusted |-> PyNone] :
             st \in {<<"TRY_LATER", TRY_LATER_TXT>>, <<"UNAUTHORIZED", UNAUTHORIZED_TXT>>}}
    \cup {[ocsp_response |-> [present |-> TRUE, responseStatus |-> txt,
                              responderID |-> "C = US, O = Trust, CN = OCSP Responder",
                              responses |-> rs],
           ocsp_response_status |-> "SUCCESSFUL",
           ocsp_response_is_trusted |-> PyBool(tr)] :
             txt \in StatusTexts, rs \in ResponseLists,
             tr \in BOOLEAN}

---------------------------------------------------------------------------
(* The scan result                                                         *)

\* the chain a successful validation against a store builds: up to the store's root
VerifiedChainOf(store, received) == <<received[1], IntermediateCert, store.root>>

\* one PathValidationResult: the chain is non-empty iff validation succeeded
PathValidationResult(store, ok, verify_string, received) ==
    [trust_store |-> [name |-> store.name, version |-> store.version, ev_oids |-> store.ev_oids],
     was_validation_successful |-> ok,
     verified_certificate_chain |-> IF ok THEN VerifiedChainOf(store, received) ELSE <<>>,
     openssL_verify_string |-> verify_string]

PathValidationResults(received) ==
    {PathValidationResult(st, TRUE, "ok", received) : st \in TrustStores}
    \cup {PathValidationResult(st, FALSE, v, received) : st \in TrustStores, v \in VerifyStrings}

PathValidationResultLists(received) == SeqsUpTo(PathValidationResults(received), MaxStores)

\* the successful outcomes of a list of outcomes, in order
SuccessfulResults(path_results) ==
    SelectSeq(path_results, LAMBDA p : p.was_validation_successful)

\* the hostname matches a DNS name or a Common Name of the leaf
HostnameMatches(cert, hostname) ==
    \/ \E i \in 1..Len(cert.san.names) : cert.san.names[i] = hostname
    \/ \E i \in 1..Len(cert.subject) :
          cert.subject[i].oid = "CN" /\ cert.subject[i].value = hostname

\* each certificate after the leaf is the issuer of the one before it
HasValidOrder(received) ==
    \A i \in 1..(Len(received) - 1) : received[i].issuer = received[i + 1].subject

\* CertificateInfoScanResult: the fields the scan derives from its inputs.  The
\* verified chain is the one of the first successful outcome; the three flags
\* that are computed on the verified chain are None when there is none.
CertificateInfoScanResult(received, path_results, is_ev, ocsp, scts_count) ==
    LET ok == SuccessfulResults(path_results)
        has_chain == Len(ok) > 0
        chain == IF has_chain THEN ok[1].verified_certificate_chain ELSE <<>>
        hostname == "example.com"
    IN [hostname_used_for_server_name_indication |-> hostname,
        received_certificate_chain |-> received,
        leaf_certificate_subject_matches_hostname |-> HostnameMatches(received[1], hostname),
        leaf_certificate_is_ev |-> is_ev,
        leaf_certificate_has_must_staple_extension |-> received[1].must_staple,
        leaf_certificate_signed_certificate_timestamps_count |-> scts_count,
        received_chain_has_valid_order |-> HasValidOrder(received),
        path_validation_results |-> path_results,
        verified_certificate_chain |-> chain,
        verified_chain_has_legacy_symantec_anchor |->
            IF has_chain
            THEN PyBool(chain[Len(chain)].sha1 \in LegacyRootFingerprints)
            ELSE PyNone,
        received_chain_contains_anchor_certificate |->
            IF has_chain
            THEN PyBool(\E i \in 1..Len(received) : received[i] = chain[Len(chain)])
            ELSE PyNone,
        verified_chain_has_sha1_signature |->
            IF has_chain
            THEN PyBool(\E i \in 1..Len(chain) : chain[i].hash_name = "sha1")
            ELSE PyNone,
        ocsp_response |-> ocsp.ocsp_response,
        ocsp_response_status |-> ocsp.ocsp_response_status,
        ocsp_response_is_trusted |-> ocsp.ocsp_response_is_trusted]

\* the SCT counts a scan reports: None, or the number of SCTs of the leaf
SctCounts == {PyNone} \cup {PyInt(n) : n \in 0..MaxScts}

\* r is a result a scan can hand to the renderer
IsScanResult(r) ==
    \E received \in ReceivedChains :
      \E path_results \in PathValidationResultLists(received) :
        \E is_ev \in BOOLEAN, ocsp \in OcspEvaluations, scts_count \in SctCounts :
            r = CertificateInfoScanResult(received, path_results, is_ev, ocsp, scts_count)

---------------------------------------------------------------------------
(* _CertificateInfoCliConnector                                            *)

NO_VERIFIED_CHAIN_ERROR_TXT == "ERROR - Could not build verified chain (certificate untrusted?)"

\* TRUST_FORMAT.format(store_name=..., store_version=...)
TRUST_FORMAT(store_name, store_version) ==
    store_name \o " CA Store (" \o store_version \o "):"

\* the key-dependent lines of _get_basic_certificate_text
PublicKeyText(public_key) ==
    IF public_key.kind = "EC"
    THEN <<_format_field("Key Size:", PyStr(public_key.key_size)),
           _format_field("Curve:", public_key.curve)>>
    ELSE IF public_key.kind = "RSA"
    THEN <<_format_field("Key Size:", PyStr(public_key.key_size)),
           _format_field("Exponent:", PyStr(public_key.e))>>
    ELSE <<>>

\* the SAN line; extract_dns_subject_alternative_names raises KeyError when the
\* certificate has no SAN extension, and the line is then left out
SanText(certificate) ==
    IF certificate.san.present
    THEN <<_format_field("DNS Subject Alternative Names:", PyStrList(certificate.san.names))>>
    ELSE <<>>

_get_basic_certificate_text(r) ==
    LET certificate == r.received_certificate_chain[1]
    IN <<_format_field("SHA1 Fingerprint:", Hexlify(certificate.sha1)),
         _format_field("Common Name:", _get_name_as_short_text(certificate.subject)),
         _format_field("Issuer:", _get_name_as_short_text(certificate.issuer)),
         _format_field("Serial Number:", PyStr(certificate.serial_number)),
         _format_field("Not Before:", DateIsoformat(certificate.not_valid_before)),
         _format_field("Not After:", DateIsoformat(certificate.not_valid_after)),
         _format_field("Signature Algorithm:", certificate.hash_name),
         _format_field("Public Key Algorithm:", certificate.public_key.cls)>>
       \o PublicKeyText(certificate.public_key)
       \o SanText(certificate)

HostnameValidationText(r) ==
    IF r.leaf_certificate_subject_matches_hostname
    THEN "OK - Certificate matches " \o r.hostname_used_for_server_name_indication
    ELSE "FAILED - Certificate does NOT match " \o r.hostname_used_for_server_name_indication

\* PathTxt with the test of the store's EV OIDs left out
PathTxt_IgnoresStoreEvOids(r, path_result) ==
    IF path_result.was_validation_successful
    THEN LET ev_txt == IF r.leaf_certificate_is_ev THEN ", Extended Validation" ELSE ""
         IN "OK - Certificate is trusted" \o ev_txt
    ELSE "FAILED - Certificate is NOT Trusted: " \o path_result.openssL_verify_string

\* the verdict text of one path validation outcome
PathTxt(r, path_result) ==
    IF path_result.was_validation_successful
    THEN LET ev_txt == IF r.leaf_certificate_is_ev /\ Len(path_result.trust_store.ev_oids) > 0
                       THEN ", Extended Validation"
                       ELSE ""
         IN "OK - Certificate is trusted" \o ev_txt
    ELSE "FAILED - Certificate is NOT Trusted: " \o path_result.openssL_verify_string

\* the outcomes whose store was not named by an earlier outcome
FirstPerStore(path_results) ==
    SelectSeq([i \in 1..Len(path_results) |-> [at |-> i, p |-> path_results[i]]],
              LAMBDA e : \A j \in 1..(e.at - 1) :
                            path_results[j].trust_store.name # e.p.trust_store.name)

\* PathValidationLines keeping one line per trust store
PathValidationLines_OnePerStore(r) ==
    [i \in 1..Len(FirstPerStore(r.path_validation_results)) |->
        LET path_result == FirstPerStore(r.path_validation_results)[i].p
        IN _format_field(TRUST_FORMAT(path_result.trust_store.name,
                                      path_result.trust_store.version),
                         PathTxt(r, path_result))]

\* the loop over path_validation_results: one line appended per outcome
PathValidationLines(r) ==
    [i \in 1..Len(r.path_validation_results) |->
        LET path_result == r.path_validation_results[i]
        IN _format_field(TRUST_FORMAT(path_result.trust_store.name,
                                      path_result.trust_store.version),
                         PathTxt(r, path_result))]

\* SymantecStr with a final else that takes any other value for False
SymantecStr_ElseIsFalse(flag) ==
    IF IsNone(flag)
    THEN [raised |-> FALSE, txt |-> NO_VERIFIED_CHAIN_ERROR_TXT]
    ELSE IF IsTrue(flag)
    THEN [raised |-> FALSE,
          txt |-> "WARNING: Certificate distrusted by Google and Mozilla since 2018"]
    ELSE [raised |-> FALSE, txt |-> "OK - Not a Symantec-issued certificate"]

\* the if/elif chain on verified_chain_has_legacy_symantec_anchor
SymantecStr(flag) ==
    IF IsNone(flag)
    THEN [raised |-> FALSE, txt |-> NO_VERIFIED_CHAIN_ERROR_TXT]
    ELSE IF IsTrue(flag)
    THEN [raised |-> FALSE,
          txt |-> "WARNING: Certificate distrusted by Google and Mozilla since 2018"]
    ELSE IF IsFalse(flag)
    THEN [raised |-> FALSE, txt |-> "OK - Not a Symantec-issued certificate"]
    ELSE [raised |-> TRUE, txt |-> ""]

\* " --> ".join of the short names of a chain's subjects
ChainCnsText(chain) ==
    Join(" --> ", [i \in 1..Len(chain) |-> _get_name_as_short_text(chain[i].subject)])

VerifiedChainTxt(r) ==
    IF Len(r.verified_certificate_chain) > 0
    THEN ChainCnsText(r.verified_certificate_chain)
    ELSE NO_VERIFIED_CHAIN_ERROR_TXT

ChainWithAnchorTxt(r) ==
    IF Len(r.verified_certificate_chain) > 0
    THEN IF ~Truthy(r.received_chain_contains_anchor_certificate)
         THEN "OK - Anchor certificate not sent"
         ELSE "WARNING - Received certificate chain contains the anchor certificate"
    ELSE NO_VERIFIED_CHAIN_ERROR_TXT

ChainOrderTxt(r) ==
    IF r.received_chain_has_valid_order
    THEN "OK - Order is valid"
    ELSE "FAILED - Certificate chain out of order!"

\* Sha1Text reading the flag without testing for a verified chain
Sha1Text_NoChainTest(r) ==
    IF ~Truthy(r.verified_chain_has_sha1_signature)
    THEN "OK - No SHA1-signed certificate in the verified certificate chain"
    ELSE "INSECURE - SHA1-signed certificate in the verified certificate chain"

Sha1Text(r) ==
    IF Len(r.verified_certificate_chain) > 0
    THEN IF ~Truthy(r.verified_chain_has_sha1_signature)
         THEN "OK - No SHA1-signed certificate in the verified certificate chain"
         ELSE "INSECURE - SHA1-signed certificate in the verified certificate chain"
    ELSE NO_VERIFIED_CHAIN_ERROR_TXT

MustStapleTxt(r) ==
    IF r.leaf_certificate_has_must_staple_extension
    THEN "OK - Extension present"
    ELSE "NOT SUPPORTED - Extension not found"

\* SctTxt taking a None count for a count of 0
SctTxt_NoneAsZero(scts_count) ==
    IF IsNone(scts_count) \/ scts_count.v = 0
    THEN "NOT SUPPORTED - Extension not found"
    ELSE IF scts_count.v < 3
    THEN "WARNING - Only " \o PyStr(scts_count.v) \o " SCTs included but Google recommends 3 or more"
    ELSE "OK - " \o PyStr(scts_count.v) \o " SCTs included"

\* SctTxt with the threshold compared with <= instead of <
SctTxt_ThresholdOffByOne(scts_count) ==
    IF IsNone(scts_count)
    THEN "OK - Extension present"
    ELSE IF scts_count.v = 0
    THEN "NOT SUPPORTED - Extension not found"
    ELSE IF scts_count.v <= 3
    THEN "WARNING - Only " \o PyStr(scts_count.v) \o " SCTs included but Google recommends 3 or more"
    ELSE "OK - " \o PyStr(scts_count.v) \o " SCTs included"

\* the if/elif chain on the SCT count
SctTxt(scts_count) ==
    IF IsNone(scts_count)
    THEN "OK - Extension present"
    ELSE IF scts_count.v = 0
    THEN "NOT SUPPORTED - Extension not found"
    ELSE IF scts_count.v < 3
    THEN "WARNING - Only " \o PyStr(scts_count.v) \o " SCTs included but Google recommends 3 or more"
    ELSE "OK - " \o PyStr(scts_count.v) \o " SCTs included"

\* the four per-certificate lines; responses[0] raises IndexError on an empty list
OcspCertLines(responses) ==
    IF Len(responses) = 0
    THEN [error |-> "IndexError", lines |-> <<>>]
    ELSE [error |-> "none",
          lines |-> <<_format_field("Cert Status:", responses[1].certStatus),
                      _format_field("Cert Serial Number:", responses[1].certID.serialNumber),
                      _format_field("This Update:", responses[1].thisUpdate),
                      _format_field("Next Update:", responses[1].nextUpdate)>>]

\* OcspRespTxt showing the responder id of a response that is not successful
OcspRespTxt_ErrorShowsResponder(r) ==
    IF ~r.ocsp_response.present
    THEN [error |-> "none",
          lines |-> <<_format_field("", "NOT SUPPORTED - Server did not send back an OCSP response")>>]
    ELSE LET status_line ==
                IF r.ocsp_response_status # "SUCCESSFUL"
                THEN _format_field("", "ERROR - OCSP response status is not successful: "
                                         \o r.ocsp_response_status)
                ELSE _format_field("OCSP Response Status:", Chars(r.ocsp_response.responseStatus))
             ocsp_trust_txt == IF Truthy(r.ocsp_response_is_trusted)
                               THEN "OK - Response is trusted"
                               ELSE "FAILED - Response is NOT trusted"
             ocsp_resp_txt ==
                <<status_line,
                  _format_field("Validation w/ Mozilla Store:", ocsp_trust_txt),
                  _format_field("Responder Id:", r.ocsp_response.responderID)>>
             cert_lines == OcspCertLines(r.ocsp_response.responses)
         IN IF Contains(SUCCESSFUL_TXT, r.ocsp_response.responseStatus)
            THEN [error |-> cert_lines.error,
                  lines |-> IF cert_lines.error = "none"
                            THEN ocsp_resp_txt \o cert_lines.lines
                            ELSE <<>>]
            ELSE [error |-> "none", lines |-> ocsp_resp_txt]

\* the lines of the "OCSP Stapling" section, or the exception raised building them
OcspRespTxt(r) ==
    IF ~r.ocsp_response.present
    THEN [error |-> "none",
          lines |-> <<_format_field("", "NOT SUPPORTED - Server did not send back an OCSP response")>>]
    ELSE IF r.ocsp_response_status # "SUCCESSFUL"
    THEN [error |-> "none",
          lines |-> <<_format_field("", "ERROR - OCSP response status is not successful: "
                                          \o r.ocsp_response_status)>>]
    ELSE LET ocsp_trust_txt == IF Truthy(r.ocsp_response_is_trusted)
                               THEN "OK - Response is trusted"
                               ELSE "FAILED - Response is NOT trusted"
             ocsp_resp_txt ==
                <<_format_field("OCSP Response Status:", Chars(r.ocsp_response.responseStatus)),
                  _format_field("Validation w/ Mozilla Store:", ocsp_trust_txt),
                  _format_field("Responder Id:", r.ocsp_response.responderID)>>
             cert_lines == OcspCertLines(r.ocsp_response.responses)
         IN IF Contains(SUCCESSFUL_TXT, r.ocsp_response.responseStatus)
            THEN [error |-> cert_lines.error,
                  lines |-> IF cert_lines.error = "none"
                            THEN ocsp_resp_txt \o cert_lines.lines
                            ELSE <<>>]
            ELSE [error |-> "none", lines |-> ocsp_resp_txt]

\* the whole handler: the list returned, or the exception that escapes
result_to_console_output(r) ==
    LET symantec == SymantecStr(r.verified_chain_has_legacy_symantec_anchor)
        ocsp == OcspRespTxt(r)
    IN IF symantec.raised
       THEN [error |-> "RuntimeError", output |-> <<>>]
       ELSE IF ocsp.error # "none"
       THEN [error |-> ocsp.error, output |-> <<>>]
       ELSE [error |-> "none",
             output |->
                <<_format_title("Certificate Information")>>
                \o _get_basic_certificate_text(r)
                \o <<BlankLine, _format_subtitle("Trust"),
                     _format_field("Hostname used for SNI:",
                                   r.hostname_used_for_server_name_indication),
                     _format_field("Hostname Validation:", HostnameValidationText(r))>>
                \o PathValidationLines(r)
                \o <<_format_field("Symantec 2018 Deprecation:", symantec.txt),
                     _format_field("Received Chain:", ChainCnsText(r.received_certificate_chain)),
                     _format_field("Verified Chain:", VerifiedChainTxt(r)),
                     _format_field("Received Chain Contains Anchor:", ChainWithAnchorTxt(r)),
                     _format_field("Received Chain Order:", ChainOrderTxt(r)),
                     _format_field("Verified Chain contains SHA1:", Sha1Text(r)),
                     BlankLine, _format_subtitle("Extensions"),
                     _format_field("OCSP Must-Staple:", MustStapleTxt(r)),
                     _format_field("Certificate Transparency:",
                                   SctTxt(r.leaf_certificate_signed_certificate_timestamps_count)),
                     BlankLine, _format_subtitle("OCSP Stapling")>>
                \o ocsp.lines]

---------------------------------------------------------------------------
(* Certificate (plugins/utils/certificate.py)                              *)

\* a dict with str keys, as the sequence of its items in order
HasKey(d, key) == \E i \in 1..Len(d) : d[i][1] = key
GetItem(d, key) == d[CHOOSE i \in 1..Len(d) : d[i][1] = key][2]

\* hash(str) for a str held as a sequence of character codes
RECURSIVE PyHash(_)
PyHash(codes) ==
    IF codes = <<>> THEN 0
    ELSE (PyHash(SubSeq(codes, 1, Len(codes) - 1)) * 33 + codes[Len(codes)]) % 16

\* Certificate.__init__
Certificate(as_pem, as_text, as_dict, sha1_fingerprint, hpkp_pin) ==
    [cls |-> "Certificate", as_pem |-> as_pem, as_text |-> as_text, as_dict |-> as_dict,
     sha1_fingerprint |-> sha1_fingerprint, hpkp_pin |-> hpkp_pin]

\* __eq__ comparing the fingerprint as well as the PEM
Certificate__eq___WithFingerprint(a, b) ==
    b.cls = a.cls /\ a.as_pem = b.as_pem /\ a.sha1_fingerprint = b.sha1_fingerprint

Certificate__eq__(a, b) == b.cls = a.cls /\ a.as_pem = b.as_pem

Certificate__ne__(a, b) == ~Certificate__eq__(a, b)

Certificate__hash__(a) == PyHash(a.as_pem)

printable_subject_name(a) ==
    IF HasKey(a.as_dict.subject, "commonName")
    THEN GetItem(a.as_dict.subject, "commonName")
    ELSE IF HasKey(a.as_dict.subject, "organizationalUnitName")
    THEN GetItem(a.as_dict.subject, "organizationalUnitName")
    ELSE "No Common Name"

\* u' - '.join(u'{}: {}'.format(key, value) for key, value in issuer.items())
IssuerFieldText(issuer) ==
    Join(" - ", [i \in 1..Len(issuer) |-> issuer[i][1] \o ": " \o issuer[i][2]])

printable_issuer_name(a) ==
    IF HasKey(a.as_dict.subject, "commonName")
    THEN GetItem(a.as_dict.subject, "commonName")
    ELSE IssuerFieldText(a.as_dict.issuer)

\* the inputs of the Certificate operations
Pems == {<<65>>, <<66, 81>>, <<81, 66>>}
Texts == {"Certificate: A", "Certificate: B"}
SubjectDicts ==
    {<<<<"organizationName", "Example">>, <<"commonName", "example.com">>>>,
     <<<<"commonName", "www.example.com">>, <<"organizationalUnitName", "Web">>>>,
     <<<<"organizationalUnitName", "Web">>>>,
     <<<<"organizationName", "Example">>>>}
IssuerDicts ==
    {<<<<"organizationName", "Trust">>, <<"commonName", "Trust CA">>>>,
     <<<<"countryName", "US">>, <<"organizationName", "Trust">>>>}
Fingerprints == {"0aff03", "0011ab"}

Certificates ==
    {Certificate(pem, text, [subject |-> subj, issuer |-> iss], fp, "pin:" \o fp) :
        pem \in Pems, text \in Texts, subj \in SubjectDicts, iss \in IssuerDicts,
        fp \in Fingerprints}

\* an object of another class, which a Certificate may be compared with
NotACertificate ==
    [cls |-> "str", as_pem |-> <<>>, as_text |-> "", as_dict |-> [subject |-> <<>>, issuer |-> <<>>],
     sha1_fingerprint |-> "", hpkp_pin |-> ""]

NoRet == [eq |-> FALSE, ne |-> FALSE, hash_self |-> 0, hash_other |-> 0,
          subject_name |-> "", issuer_name |-> ""]

---------------------------------------------------------------------------
(* The state machines                                                      *)

IdleCert ==
    /\ self = NotACertificate
    /\ other = NotACertificate
    /\ cpc = "idle"
    /\ ret = NoRet

IdleConnector ==
    /\ result = CertificateInfoScanResult(<<LeafRsa>>, <<>>, FALSE, NoOcsp, PyNone)
    /\ pc = "idle"
    /\ output = <<>>
    /\ error = "none"

\* a scan has completed and its result is about to be rendered
Init ==
    /\ IsScanResult(result)
    /\ pc = "start"
    /\ output = <<>>
    /\ error = "none"
    /\ IdleCert

\* the renderer returns its list of lines
RenderReturns ==
    /\ pc = "start"
    /\ result_to_console_output(result).error = "none"
    /\ output' = result_to_console_output(result).output
    /\ error' = "none"
    /\ pc' = "done"
    /\ UNCHANGED <<result, certVars>>

\* the renderer raises
RenderRaises ==
    /\ pc = "start"
    /\ result_to_console_output(result).error # "none"
    /\ output' = <<>>
    /\ error' = result_to_console_output(result).error
    /\ pc' = "raised"
    /\ UNCHANGED <<result, certVars>>

Next == RenderReturns \/ RenderRaises

Spec == Init /\ [][Next]_vars

\* a result built directly by a caller: the dataclass does not check the type
\* of the legacy-CA flag it is given
LegacyFlagValues == {PyNone, PyTrue, PyFalse, PyInt(0), PyInt(1)}

InitRaw ==
    /\ \E received \in ReceivedChains :
         \E path_results \in PathValidationResultLists(received) :
           \E ocsp \in OcspEvaluations, flag \in LegacyFlagValues :
              result = [CertificateInfoScanResult(received, path_results, FALSE, ocsp, PyNone)
                            EXCEPT !.verified_chain_has_legacy_symantec_anchor = flag]
    /\ pc = "start"
    /\ output = <<>>
    /\ error = "none"
    /\ IdleCert

SpecRaw == InitRaw /\ [][Next]_vars

\* two objects exist, the first a Certificate
InitCert ==
    /\ self \in Certificates
    /\ other \in Certificates \cup {NotACertificate}
    /\ cpc = "start"
    /\ ret = NoRet
    /\ IdleConnector

\* self == other, self != other and the hashes are evaluated
Compare ==
    /\ cpc = "start"
    /\ ret' = [ret EXCEPT !.eq = Certificate__eq__(self, other),
                          !.ne = Certificate__ne__(self, other),
                          !.hash_self = Certificate__hash__(self),
                          !.hash_other = IF other.cls = "Certificate"
                                         THEN Certificate__hash__(other)
                                         ELSE 0]
    /\ cpc' = "compared"
    /\ UNCHANGED <<self, other, connVars>>

\* the two display-name properties of self are read
PrintNames ==
    /\ cpc = "start"
    /\ ret' = [ret EXCEPT !.subject_name = printable_subject_name(self),
                          !.issuer_name = printable_issuer_name(self)]
    /\ cpc' = "printed"
    /\ UNCHANGED <<self, other, connVars>>

NextCert == Compare \/ PrintNames

SpecCert == InitCert /\ [][NextCert]_vars

---------------------------------------------------------------------------
(* Reading the rendered output                                             *)

FieldIndex(out, title) ==
    CHOOSE i \in 1..Len(out) : out[i].kind = "field" /\ out[i].title = title
FieldValue(out, title) == out[FieldIndex(out, title)].value
SubtitleIndex(out, title) ==
    CHOOSE i \in 1..Len(out) : out[i].kind = "subtitle" /\ out[i].title = title

\* the lines between the hostname validation line and the legacy-CA line
TrustLines(out) ==
    SubSeq(out, FieldIndex(out, "Hostname Validation:") + 1,
                FieldIndex(out, "Symantec 2018 Deprecation:") - 1)

\* the lines after the "OCSP Stapling" subtitle
OcspSection(out) == SubSeq(out, SubtitleIndex(out, "OCSP Stapling") + 1, Len(out))

HasTitle(lines, titles) == \E i \in 1..Len(lines) : lines[i].title \in titles

OcspCertDetailTitles == {"Cert Status:", "Cert Serial Number:", "This Update:", "Next Update:"}
OcspEvaluatedTitles ==
    OcspCertDetailTitles
    \cup {"Responder Id:", "Validation w/ Mozilla Store:", "OCSP Response Status:"}

SctCount == result.leaf_certificate_signed_certificate_timestamps_count
SctLine == FieldValue(output, "Certificate Transparency:")

NOT_SUPPORTED_TXT == "NOT SUPPORTED - Extension not found"
EV_TRUSTED_TXT == "OK - Certificate is trusted, Extended Validation"
TRUSTED_TXT == "OK - Certificate is trusted"

NoSuccessfulOutcome ==
    \A i \in 1..Len(result.path_validation_results) :
        ~result.path_validation_results[i].was_validation_successful

---------------------------------------------------------------------------
(* The claims                                                              *)

\* C1 (as stated): an absent SCT count (None) and a count of 0 get the same
\* classification, "not supported", and neither is shown as OK / present.
C1_AbsentAndZeroBothNotSupported ==
    (pc = "done" /\ (IsNone(SctCount) \/ SctCount.v = 0))
        => SctLine = NOT_SUPPORTED_TXT

\* C1 (amended): a count of 0 is shown as "NOT SUPPORTED - Extension not found";
\* a None count is shown as "OK - Extension present", which is another
\* classification than that of 0.
C1_ZeroNotSupportedNonePresent ==
    pc = "done" =>
        /\ (~IsNone(SctCount) /\ SctCount.v = 0) => SctLine = NOT_SUPPORTED_TXT
        /\ IsNone(SctCount) => (SctLine = "OK - Extension present" /\ SctLine # NOT_SUPPORTED_TXT)

C1_Witness == pc = "done" /\ IsNone(SctCount) /\ SctLine = "OK - Extension present"

\* C2: a Successful response with an empty per-certificate list is rendered
\* without an out-of-range failure, showing the status, trust and responder
\* lines and no per-certificate line.
C2_EmptyResponsesNoIndexError ==
    (/\ pc # "start"
     /\ result.ocsp_response.present
     /\ result.ocsp_response_status = "SUCCESSFUL"
     /\ Len(result.ocsp_response.responses) = 0)
        => /\ pc = "done"
           /\ error = "none"
           /\ ~HasTitle(OcspSection(output), OcspCertDetailTitles)
           /\ HasTitle(OcspSection(output), {"Responder Id:"})

\* C3: when no path validation outcome is successful, the legacy-CA line, the
\* SHA-1 line and the anchor line all show the "could not build verified
\* chain" text, hence no OK / WARNING / FAILED / INSECURE verdict.
C3_NoVerifiedChainAllUnknown ==
    (pc = "done" /\ NoSuccessfulOutcome)
        => /\ FieldValue(output, "Symantec 2018 Deprecation:") = NO_VERIFIED_CHAIN_ERROR_TXT
           /\ FieldValue(output, "Verified Chain contains SHA1:") = NO_VERIFIED_CHAIN_ERROR_TXT
           /\ FieldValue(output, "Received Chain Contains Anchor:") = NO_VERIFIED_CHAIN_ERROR_TXT

C3_Witness ==
    /\ pc = "done"
    /\ NoSuccessfulOutcome
    /\ Len(result.path_validation_results) = 2
    /\ FieldValue(output, "Verified Chain contains SHA1:") = NO_VERIFIED_CHAIN_ERROR_TXT

\* C4: a store's verdict is marked Extended Validation iff the outcome is
\* successful, the store declares EV OIDs and the leaf is EV-eligible; an
\* unsuccessful outcome is shown as not trusted with the store's diagnostic.
C4_ExtendedValidationIff ==
    pc = "done" =>
        \A i \in 1..Len(result.path_validation_results) :
            LET p == result.path_validation_results[i]
                line == TrustLines(output)[i]
            IN /\ (line.value = EV_TRUSTED_TXT)
                    <=> (/\ p.was_validation_successful
                         /\ Len(p.trust_store.ev_oids) > 0
                         /\ result.leaf_certificate_is_ev)
               /\ ~p.was_validation_successful
                    => line.value = "FAILED - Certificate is NOT Trusted: "
                                        \o p.openssL_verify_string
               /\ p.was_validation_successful => line.value \in {EV_TRUSTED_TXT, TRUSTED_TXT}

C4_Witness ==
    /\ pc = "done"
    /\ result.leaf_certificate_is_ev
    /\ Len(result.path_validation_results) = 2
    /\ TrustLines(output)[1].value = EV_TRUSTED_TXT
    /\ TrustLines(output)[2].value = TRUSTED_TXT

\* C5: the OCSP section is the single "not supported" line when there is no
\* response, the single error line naming the status when the status is not
\* Successful, and starts with the status, trust and responder lines when it
\* is Successful; the first two forms show no per-certificate detail, no
\* responder id and no trust verdict.
C5_OcspThreeForms ==
    pc = "done" =>
        LET section == OcspSection(output)
        IN /\ ~result.ocsp_response.present
                => section = <<_format_field("", "NOT SUPPORTED - Server did not send back an OCSP response")>>
           /\ (result.ocsp_response.present /\ result.ocsp_response_status # "SUCCESSFUL")
                => section = <<_format_field("", "ERROR - OCSP response status is not successful: "
                                                    \o result.ocsp_response_status)>>
           /\ (result.ocsp_response.present /\ result.ocsp_response_status = "SUCCESSFUL")
                => /\ Len(section) >= 3
                   /\ section[1].title = "OCSP Response Status:"
                   /\ section[2].title = "Validation w/ Mozilla Store:"
                   /\ section[3].title = "Responder Id:"
           /\ (~result.ocsp_response.present \/ result.ocsp_response_status # "SUCCESSFUL")
                => ~HasTitle(section, OcspEvaluatedTitles)

C5_Witness ==
    /\ pc = "done"
    /\ result.ocsp_response.present
    /\ result.ocsp_response_status = "TRY_LATER"
    /\ Len(OcspSection(output)) = 1

\* C6: two Certificate records are equal iff their as_pem are equal, whatever
\* the other fields hold; __ne__ is the negation of __eq__; equal records have
\* the same hash.
C6_EqualityByPem ==
    cpc = "compared" =>
        /\ ret.ne = ~ret.eq
        /\ other.cls = "Certificate"
            => /\ ret.eq <=> (self.as_pem = other.as_pem)
               /\ ret.eq => ret.hash_self = ret.hash_other

C6_Witness ==
    /\ cpc = "compared"
    /\ other.cls = "Certificate"
    /\ self.as_pem = other.as_pem
    /\ self.as_text # other.as_text
    /\ self.as_dict # other.as_dict
    /\ self.sha1_fingerprint # other.sha1_fingerprint
    /\ ret.eq

\* C7: the trust lines are as many as the outcomes and in their order: the
\* i-th line names the i-th outcome's store and carries its verdict, also
\* when several outcomes name one store.
C7_TrustLinesInInputOrder ==
    pc = "done" =>
        /\ Len(TrustLines(output)) = Len(result.path_validation_results)
        /\ \A i \in 1..Len(result.path_validation_results) :
              LET p == result.path_validation_results[i]
                  line == TrustLines(output)[i]
              IN /\ line.title = p.trust_store.name \o " CA Store (" \o p.trust_store.version \o "):"
                 /\ IF p.was_validation_successful
                    THEN line.value \in {EV_TRUSTED_TXT, TRUSTED_TXT}
                    ELSE line.value = "FAILED - Certificate is NOT Trusted: "
                                          \o p.openssL_verify_string

C7_Witness ==
    /\ pc = "done"
    /\ Len(result.path_validation_results) = 2
    /\ result.path_validation_results[1].trust_store = result.path_validation_results[2].trust_store
    /\ ~result.path_validation_results[1].was_validation_successful
    /\ result.path_validation_results[2].was_validation_successful
    /\ Len(TrustLines(output)) = 2

\* C8: a legacy-CA flag outside {None, True, False} makes the renderer raise
\* RuntimeError and return nothing; for each of the three values of the
\* domain no RuntimeError is raised and the line shows that value's own text.
C8_OutOfDomainFlagRaises ==
    LET flag == result.verified_chain_has_legacy_symantec_anchor
        line == FieldValue(output, "Symantec 2018 Deprecation:")
    IN pc # "start" =>
        /\ flag \notin {PyNone, PyTrue, PyFalse}
            => (pc = "raised" /\ error = "RuntimeError" /\ output = <<>>)
        /\ flag \in {PyNone, PyTrue, PyFalse}
            => /\ error # "RuntimeError"
               /\ pc = "done" =>
                    /\ flag = PyNone => line = NO_VERIFIED_CHAIN_ERROR_TXT
                    /\ flag = PyTrue
                         => line = "WARNING: Certificate distrusted by Google and Mozilla since 2018"
                    /\ flag = PyFalse => line = "OK - Not a Symantec-issued certificate"

C8_Witness ==
    /\ pc = "raised"
    /\ result.verified_chain_has_legacy_symantec_anchor = PyInt(1)
    /\ error = "RuntimeError"
    /\ output = <<>>

\* C9: a count of 1 or 2 is shown as the WARNING "below 3" text and every
\* count of 3 or more as the OK text: the boundary is exactly 3.
C9_SctThresholdIsThree ==
    (pc = "done" /\ ~IsNone(SctCount)) =>
        /\ SctCount.v \in {1, 2}
            => SctLine = "WARNING - Only " \o PyStr(SctCount.v)
                            \o " SCTs included but Google recommends 3 or more"
        /\ SctCount.v >= 3 => SctLine = "OK - " \o PyStr(SctCount.v) \o " SCTs included"

C9_Witness == pc = "done" /\ SctCount = PyInt(3) /\ SctLine = "OK - 3 SCTs included"

\* C10: printable_issuer_name is the issuer's Common Name when the issuer has
\* one and the whole issuer field otherwise; it does not depend on the subject.
C10_IssuerNameFromIssuerOnly ==
    cpc = "printed" =>
        ret.issuer_name =
            IF HasKey(self.as_dict.issuer, "commonName")
            THEN GetItem(self.as_dict.issuer, "commonName")
            ELSE IssuerFieldText(self.as_dict.issuer)

===========================================================================
